---------------------------- MODULE Spec2Model ----------------------------
(***************************************************************************)
(* Model of src/src/builder.js: the schema-driven Builder (GeneratedBuilder)*)
(* with its constructor (validation replay), fields(), missing(),          *)
(* _choiceConfig(), options(), choose() and get().                         *)
(*                                                                         *)
(* JavaScript values are tagged records.  A field path (a string such as   *)
(* "class.spell") is the sequence of its dot-separated segments; the empty *)
(* string is the empty sequence.  split and join are modelled by what they *)
(* do on that representation (split('') is [''], join of [] is '').        *)
(***************************************************************************)
EXTENDS Integers, Sequences, FiniteSets, TLC

VARIABLES heap, result

vars == <<heap, result>>

(* ------------------------------ JS values ------------------------------ *)

Undefined == [t |-> "undefined"]

Str(s) == [t |-> "string", s |-> s]

Num(n) == [t |-> "number", n |-> n]

Bool(b) == [t |-> "boolean", b |-> b]

Sym(name) == [t |-> "symbol", name |-> name]

Fn(name) == [t |-> "function", name |-> name]

\* an object: its own keys in insertion order, and the value at each key
Obj(ks, at) == [t |-> "object", keys |-> ks, at |-> at]

\* typeof v
TypeOf(v) == v.t

\* obj[k] for a non-nil obj: a missing property, or a property of a
\* primitive, reads as undefined
Get(obj, k) ==
  IF obj.t = "object" /\ k \in DOMAIN obj.at THEN obj.at[k] ELSE Undefined

\* ramda keys: the own keys of an object, [] for anything else
Keys(obj) == IF obj.t = "object" THEN obj.keys ELSE <<>>

\* the property key a value is coerced to when used as obj[v]
ToKey(v) ==
  CASE v.t = "undefined" -> "undefined"
    [] v.t = "string" -> v.s
    [] v.t = "number" -> ToString(v.n)
    [] OTHER -> v.t

Range(s) == {s[i] : i \in DOMAIN s}

\* ramda contains(x, list)
Contains(x, list) == x \in Range(list)

\* ramda path(keys, obj): walk obj, stopping with undefined at a nil value
RECURSIVE Path(_, _)
Path(ks, obj) ==
  IF ks = <<>> THEN obj
  ELSE IF obj = Undefined THEN Undefined
  ELSE Path(Tail(ks), Get(obj, Head(ks)))

\* split('.', s) on the segment representation of s
Split(s) == IF s = <<>> THEN <<"">> ELSE s

\* join('.', list) on the segment representation
Join(b) == IF b = <<"">> THEN <<>> ELSE b

\* the path string that is the single segment seg
SegPath(seg) == IF seg = "" THEN <<>> ELSE <<seg>>

(* ------------------------------- schema -------------------------------- *)

STRING_SYM == Sym("STRING")

NUMBER_SYM == Sym("NUMBER")

OptionLiterals ==
  Obj(<<"STRING", "NUMBER">>, [STRING |-> STRING_SYM, NUMBER |-> NUMBER_SYM])

\* ramda values(obj)
Values(obj) == [i \in DOMAIN obj.keys |-> obj.at[obj.keys[i]]]

\* a SchemaNode { fields: ... }
Node(fields) == Obj(<<"fields">>, [fields |-> fields])

NoFields == Obj(<<>>, <<>>)

\* the definition the engine is created from: root fields name (STRING,
\* required, with a validation predicate), class (warrior | mage) and
\* school (STRING, validated to be fire or ice, not required); mage has
\* spell (STRING, required) and its own school, an enumerated field
\* (fire | ice); fire has level (NUMBER) and rank
\* (low | high), ice has level (STRING, with the validation predicate) and
\* rank (low | high), whose low has bonus (STRING)
definition ==
  Node(Obj(<<"name", "class", "school">>,
    [name |->
       Obj(<<"options", "required", "validation">>,
           [options |-> STRING_SYM, required |-> Bool(TRUE),
            validation |-> Fn("notEmptyString")]),
     class |->
       Obj(<<"options", "required">>,
           [required |-> Bool(TRUE),
            options |->
              Obj(<<"warrior", "mage">>,
                [warrior |-> Node(NoFields),
                 mage |->
                   Node(Obj(<<"spell", "school">>,
                     [spell |->
                        Obj(<<"options", "required">>,
                            [options |-> STRING_SYM, required |-> Bool(TRUE)]),
                      school |->
                        Obj(<<"options">>,
                            [options |->
                               Obj(<<"fire", "ice">>,
                                 [fire |->
                                    Node(Obj(<<"level", "rank">>,
                                      [level |->
                                         Obj(<<"options">>,
                                             [options |-> NUMBER_SYM]),
                                       rank |->
                                         Obj(<<"options">>,
                                             [options |->
                                                Obj(<<"low", "high">>,
                                                  [low |-> Node(NoFields),
                                                   high |-> Node(NoFields)])])])),
                                  ice |->
                                    Node(Obj(<<"level", "rank">>,
                                      [level |->
                                         Obj(<<"options", "validation">>,
                                             [options |-> STRING_SYM,
                                              validation |->
                                                Fn("notEmptyString")]),
                                       rank |->
                                         Obj(<<"options">>,
                                             [options |->
                                                Obj(<<"low", "high">>,
                                                  [low |->
                                                     Node(Obj(<<"bonus">>,
                                                       [bonus |->
                                                          Obj(<<"options">>,
                                                              [options |-> STRING_SYM])])),
                                                   high |-> Node(NoFields)])])]))])])]))])]),
     school |->
       Obj(<<"options", "validation">>,
           [options |-> STRING_SYM, validation |-> Fn("isSchool")])]))

\* calling a validation predicate of the definition on a value: the
\* predicates are v => v !== '' and v => v === 'fire' || v === 'ice'
Apply(fn, v) ==
  CASE fn.name = "notEmptyString" -> v # Str("")
    [] fn.name = "isSchool" -> v \in {Str("fire"), Str("ice")}
    [] OTHER -> TRUE

(* ------------------------------ ChoiceSet ------------------------------ *)

\* this.choices: the own keys in insertion order, each with its value
\* this.choices[field]
Lookup(choices, field) ==
  IF \E i \in DOMAIN choices : choices[i].field = field
  THEN choices[CHOOSE i \in DOMAIN choices : choices[i].field = field].value
  ELSE Undefined

\* set: this.choices[field] = value
Set(choices, field, value) ==
  IF \E i \in DOMAIN choices : choices[i].field = field
  THEN [i \in DOMAIN choices |->
          IF choices[i].field = field
          THEN [field |-> field, value |-> value] ELSE choices[i]]
  ELSE Append(choices, [field |-> field, value |-> value])

\* mutant of Merge: the new Builder is made from the new pair alone
MergeOnlyNew(l, r) == r

\* merge(l, r): l's keys first, r's new keys after, r's values win
RECURSIVE Merge(_, _)
Merge(l, r) ==
  IF r = <<>> THEN l
  ELSE Merge(Set(l, Head(r).field, Head(r).value), Tail(r))

(* ------------------------------- errors -------------------------------- *)

NoChoices == <<>>

\* the constructor returned: the Builder's choices
Ok(choices) ==
  [kind |-> "ok", field |-> <<>>, value |-> Undefined, reason |-> Undefined,
   choices |-> choices]

\* mutant of InvalidField: this.field is not set
InvalidFieldNoPath(field) ==
  [kind |-> "InvalidField", field |-> <<>>, value |-> Undefined,
   reason |-> Undefined, choices |-> NoChoices]

\* new InvalidField(field)
InvalidField(field) ==
  [kind |-> "InvalidField", field |-> field, value |-> Undefined,
   reason |-> Undefined, choices |-> NoChoices]

\* new InvalidChoice(field, value, reason)
InvalidChoice(field, value, reason) ==
  [kind |-> "InvalidChoice", field |-> field, value |-> value,
   reason |-> reason, choices |-> NoChoices]

\* the TypeError of reading a property of undefined
TypeError ==
  [kind |-> "TypeError", field |-> <<>>, value |-> Undefined,
   reason |-> Undefined, choices |-> NoChoices]

\* `must be one of [${join(', ', keys(validOptions))}]`
MustBeOneOf(ks) == [t |-> "string", s |-> "must be one of", list |-> ks]

(* ------------------------------- fields -------------------------------- *)

\* ideaFn(config, breadcrumb): the breadcrumb's own path, then for each child
\* key either its path or, for an enumerated child with a choice, ideaFn of
\* the chosen option's node; flattened in order
RECURSIVE ideaFn(_, _, _)
ideaFn(choices, config, breadcrumb) ==
  LET flds == Get(config, "fields")
      field == Join(breadcrumb)
      children == Keys(flds)
      emit(key) ==
        LET options == Get(Get(flds, key), "options")
            route == Append(breadcrumb, key)
            choicePath == Join(route)
            optionsAreLiteral == options.t = "symbol"
            hasChoice == Lookup(choices, choicePath) = Undefined
        IN IF optionsAreLiteral \/ hasChoice THEN <<choicePath>>
           ELSE ideaFn(choices,
                       Get(options, ToKey(Lookup(choices, choicePath))), route)
      RECURSIVE flat(_)
      flat(i) == IF i > Len(children) THEN <<>>
                 ELSE emit(children[i]) \o flat(i + 1)
  IN <<field>> \o flat(1)

\* mutant of fields: the empty root path is not dropped
fieldsKeepRoot(choices) == ideaFn(choices, definition, <<>>)

\* mutant of fields: the paths that already have a choice are left out
fieldsUnsetOnly(choices) ==
  SelectSeq(Tail(ideaFn(choices, definition, <<>>)),
            LAMBDA p : Lookup(choices, p) = Undefined)

\* fields(): tail drops the empty path generated for the root
fields(choices) == Tail(ideaFn(choices, definition, <<>>))

(* ---------------------------- _choiceConfig ---------------------------- *)

\* chain(option => [option, 'options', this.choices[option], 'fields'], list)
RECURSIVE chainOptions(_, _)
chainOptions(choices, list) ==
  IF list = <<>> THEN <<>>
  ELSE <<Head(list), "options", ToKey(Lookup(choices, SegPath(Head(list)))),
         "fields">> \o chainOptions(choices, Tail(list))

\* reject(isEmpty, list): drops the empty strings
RECURSIVE rejectEmpty(_)
rejectEmpty(list) ==
  IF list = <<>> THEN <<>>
  ELSE (IF Head(list) = "" THEN <<>> ELSE <<Head(list)>>)
       \o rejectEmpty(Tail(list))

\* _choiceConfig(field): every segment but the last is followed through the
\* choice stored under that segment alone
choiceConfig(choices, field) ==
  LET breadcrumb == Split(field)
      init == SubSeq(breadcrumb, 1, Len(breadcrumb) - 1)
      builtPath == Append(chainOptions(choices, init),
                          breadcrumb[Len(breadcrumb)])
  IN Path(rejectEmpty(builtPath), Get(definition, "fields"))

\* options(field): the marker of a literal field, the keys of an enumerated
\* one; undefined when no branch of cond matches
options(choices, field) ==
  LET opts == Get(choiceConfig(choices, field), "options")
  IN CASE opts.t = "symbol" -> opts
       [] opts.t = "object" -> [t |-> "array", list |-> Keys(opts)]
       [] OTHER -> Undefined

\* get(field)
get(choices, field) == Lookup(choices, field)

(* ------------------------------ requires ------------------------------- *)

\* filter(propEq('required', true), obj), then keys: the keys of obj, in
\* their order, whose value has required === true
RECURSIVE keysOfRequired(_, _)
keysOfRequired(obj, ks) ==
  IF ks = <<>> THEN <<>>
  ELSE (IF Get(Get(obj, Head(ks)), "required") = Bool(TRUE)
        THEN <<SegPath(Head(ks))>> ELSE <<>>)
       \o keysOfRequired(obj, Tail(ks))

\* mutant of requires: every reachable field with required: true, nested
\* ones included
requiresReachable(choices) ==
  SelectSeq(fields(choices),
            LAMBDA p : Get(choiceConfig(choices, p), "required") = Bool(TRUE))

\* requires(): reads definition.fields only, never the receiver's choices
requires(choices) ==
  keysOfRequired(Get(definition, "fields"), Keys(Get(definition, "fields")))

(* ------------------------------ missing -------------------------------- *)

\* literalChoice: f => contains(f.options, values(OptionLiterals))
literalChoice(f) == Contains(Get(f, "options"), Values(OptionLiterals))

\* addBreadcrumb: the field itself under the empty choice path, otherwise
\* choicePath + '.' + field
addBreadcrumb(choicePath, field) ==
  IF choicePath = <<>> THEN SegPath(field) ELSE Append(choicePath, field)

\* ramda filter(pred, list), for the two predicates missing() filters by
RECURSIVE filterChoice(_, _, _)
filterChoice(choices, wantUndefined, list) ==
  IF list = <<>> THEN <<>>
  ELSE (IF (Lookup(choices, Head(list)) = Undefined) = wantUndefined
        THEN <<Head(list)>> ELSE <<>>)
       \o filterChoice(choices, wantUndefined, Tail(list))

\* findMissingFor = chain(choicePath => ...): the unset fields at the level
\* of each choice path, then those below its made enumerated choices
RECURSIVE findMissingFor(_, _)
findMissingFor(choices, list) ==
  IF list = <<>> THEN <<>>
  ELSE
    LET choicePath == Head(list)
        choice == Lookup(choices, choicePath)
        config == choiceConfig(choices, choicePath)
        flds == IF choice = Undefined THEN config
                ELSE Path(<<"options", ToKey(choice), "fields">>, config)
        ks == Keys(flds)
        fullChoicePaths(names) ==
          [i \in DOMAIN names |-> addBreadcrumb(choicePath, names[i])]
        RECURSIVE nonLiteral(_)
        nonLiteral(i) ==
          IF i > Len(ks) THEN <<>>
          ELSE (IF literalChoice(Get(flds, ks[i])) THEN <<>> ELSE <<ks[i]>>)
               \o nonLiteral(i + 1)
        missingChoices == filterChoice(choices, TRUE, fullChoicePaths(ks))
        madeChoices ==
          filterChoice(choices, FALSE, fullChoicePaths(nonLiteral(1)))
    IN (missingChoices \o findMissingFor(choices, madeChoices))
       \o findMissingFor(choices, Tail(list))

\* mutant of missing: the fields with a value are not filtered out
missingUnfiltered(choices) == fields(choices)

\* missing()
missing(choices) == findMissingFor(choices, <<<<>>>>)

(* ----------------------------- constructor ----------------------------- *)

\* the type / option-membership switch on typeof validOptions
checkOptions(field, value, validOptions) ==
  CASE validOptions.t = "symbol" /\ validOptions = STRING_SYM
         /\ TypeOf(value) # "string" ->
         InvalidChoice(field, value, Str("must be string"))
    [] validOptions.t = "symbol" /\ validOptions = NUMBER_SYM
         /\ TypeOf(value) # "number" ->
         InvalidChoice(field, value, Str("must be number"))
    [] validOptions.t = "object"
         /\ ~(value.t = "string" /\ Contains(value.s, Keys(validOptions))) ->
         InvalidChoice(field, value, MustBeOneOf(Keys(validOptions)))
    [] OTHER -> Ok(NoChoices)

\* mutant of validateEntry: the reachability check is left out
validateEntryAnyField(choices, field, value) ==
  LET config == choiceConfig(choices, field)
  IN IF config = Undefined THEN TypeError
     ELSE
       LET checked == checkOptions(field, value, Get(config, "options"))
           validationRule == Get(config, "validation")
       IN IF checked.kind # "ok" THEN checked
          ELSE IF validationRule # Undefined /\ ~Apply(validationRule, value)
          THEN InvalidChoice(field, value, Undefined)
          ELSE Ok(Set(choices, field, value))

\* the body of the constructor's forEach for one entry of values, run on
\* the choices set so far
validateEntry(choices, field, value) ==
  IF ~Contains(field, fields(choices)) THEN InvalidField(field)
  ELSE
    LET config == choiceConfig(choices, field)
    IN IF config = Undefined THEN TypeError
       ELSE
         LET checked == checkOptions(field, value, Get(config, "options"))
             validationRule == Get(config, "validation")
         IN IF checked.kind # "ok" THEN checked
            ELSE IF validationRule # Undefined /\ ~Apply(validationRule, value)
            THEN InvalidChoice(field, value, Undefined)
            ELSE Ok(Set(choices, field, value))

\* Object.keys(values).forEach(...): the entries in key order, each against
\* the choices of the entries before it; the first failure is thrown
RECURSIVE forEachEntry(_, _)
forEachEntry(values, choices) ==
  IF values = <<>> THEN Ok(choices)
  ELSE LET r == validateEntry(choices, Head(values).field, Head(values).value)
       IN IF r.kind # "ok" THEN r ELSE forEachEntry(Tail(values), r.choices)

\* new GeneratedBuilder(values)
constructor(values) == forEachEntry(values, NoChoices)

\* mutant of choose: the merged choices are taken over without running the
\* constructor's validation on them
chooseUnvalidated(choices, field, value) ==
  Ok(Merge(choices, <<[field |-> field, value |-> value]>>))

\* mutant of choose: only the given pair is validated, against the
\* receiver's choices, and set on a copy of them
chooseValidatesOnlyPair(choices, field, value) ==
  validateEntry(choices, field, value)

\* choose(field, value): a new Builder from the merged choices
choose(choices, field, value) ==
  constructor(Merge(choices, <<[field |-> field, value |-> value]>>))

(* ---------------------------- state machine ---------------------------- *)

\* the most Builders alive at once
MaxBuilders == 2

\* the most entries of an initial values object
MaxInit == 3

Entry(field, value) == [field |-> field, value |-> value]

\* the field paths callers pass
TestPaths ==
  {<<"name">>, <<"class">>, <<"school">>, <<"class", "spell">>,
   <<"class", "school">>, <<"class", "school", "level">>,
   <<"class", "school", "rank">>, <<"class", "school", "rank", "bonus">>,
   <<"unknownField">>}

\* the values callers pass
TestValues ==
  {Str(""), Str("warrior"), Str("mage"), Str("fire"), Str("ice"),
   Str("low"), Num(1)}

\* the entries initial values objects are made of
BaseEntries ==
  {Entry(<<"name">>, Str("")),
   Entry(<<"class">>, Str("mage")),
   Entry(<<"class", "spell">>, Str("fire")),
   Entry(<<"school">>, Str("fire")), Entry(<<"school">>, Str("ice")),
   Entry(<<"class", "school">>, Str("fire")),
   Entry(<<"class", "school", "level">>, Num(1))}

\* values objects: up to MaxInit entries with distinct keys, in any order
InitialValues ==
  {vs \in UNION {[1..n -> BaseEntries] : n \in 0..MaxInit} :
     \A i, j \in DOMAIN vs : i # j => vs[i].field # vs[j].field}

\* no call is outstanding
NoResult ==
  [op |-> "none", from |-> 0, field |-> <<>>, value |-> Undefined,
   values |-> <<>>, kind |-> "none", errField |-> <<>>,
   errValue |-> Undefined, reason |-> Undefined, choices |-> NoChoices,
   created |-> 0]

\* what a call returned (the new Builder's choices, and its place in the
\* heap when the caller keeps it) or threw (the error's field, value and
\* reason), with the arguments it was given
Returned(op, from, field, value, values, r, created) ==
  [op |-> op, from |-> from, field |-> field, value |-> value,
   values |-> values, kind |-> r.kind, errField |-> r.field,
   errValue |-> r.value, reason |-> r.reason, choices |-> r.choices,
   created |-> IF r.kind = "ok" THEN created ELSE 0]

Init ==
  /\ heap = <<>>
  /\ result = NoResult

\* b = new Builder(values), the first Builder of the session: on success
\* it joins the heap
Construct(values) ==
  LET r == constructor(values)
  IN /\ result = NoResult
     /\ heap = <<>>
     /\ heap' = IF r.kind = "ok" THEN Append(heap, r.choices) ELSE heap
     /\ result' = Returned("construct", 0, <<>>, Undefined, values, r,
                           Len(heap) + 1)

\* mutant of ChooseWithin: choose assigns into the receiver's own choices
\* and returns the receiver
ChooseInPlace(i, field, value, cap) ==
  LET r == choose(heap[i], field, value)
  IN /\ result = NoResult
     /\ heap' = IF r.kind = "ok" THEN [heap EXCEPT ![i] = r.choices] ELSE heap
     /\ result' = Returned("choose", i, field, value, <<>>, r, i)

\* mutant of ChooseWithin: the merged choices are kept even when the
\* validation throws
ChooseKeepsInvalid(i, field, value, cap) ==
  LET r == choose(heap[i], field, value)
      merged == Merge(heap[i], <<[field |-> field, value |-> value]>>)
  IN /\ result = NoResult
     /\ heap' = IF Len(heap) < cap THEN Append(heap, merged) ELSE heap
     /\ result' = Returned("choose", i, field, value, <<>>, r,
                           IF Len(heap) < cap THEN Len(heap) + 1 ELSE 0)

\* b2 = heap[i].choose(field, value) with room for cap Builders: on success
\* the new Builder joins the heap (when there is no room the caller drops
\* it at once), on failure nothing is returned
ChooseWithin(i, field, value, cap) ==
  LET r == choose(heap[i], field, value)
      kept == r.kind = "ok" /\ Len(heap) < cap
  IN /\ result = NoResult
     /\ heap' = IF kept THEN Append(heap, r.choices) ELSE heap
     /\ result' = Returned("choose", i, field, value, <<>>, r,
                           IF kept THEN Len(heap) + 1 ELSE 0)

Choose(i, field, value) == ChooseWithin(i, field, value, MaxBuilders)

\* the caller takes the returned Builder, or catches the error, and goes on
Handle ==
  /\ result # NoResult
  /\ result' = NoResult
  /\ UNCHANGED heap

Next ==
  \/ \E values \in InitialValues : Construct(values)
  \/ \E i \in DOMAIN heap, field \in TestPaths, value \in TestValues :
       Choose(i, field, value)
  \/ Handle

Spec == Init /\ [][Next]_vars

\* the most Builders alive at once in a branching session
MaxBranch == 3

\* the arguments of a branching session: it starts from new Builder({})
BranchInitial == {<<>>}

BranchPaths == {<<"name">>, <<"class">>, <<"class", "spell">>}

BranchValues == {Str("mage"), Str("warrior")}

NextBranch ==
  \/ \E values \in BranchInitial : Construct(values)
  \/ \E i \in DOMAIN heap, field \in BranchPaths, value \in BranchValues :
       ChooseWithin(i, field, value, MaxBranch)
  \/ Handle

\* sessions that branch: several Builders are derived from the same one
SpecBranch == Init /\ [][NextBranch]_vars

(* ------------------------- reference definitions ----------------------- *)

\* p is q or an ancestor of q: p is a dot-prefix of q
IsPrefix(p, q) == Len(p) <= Len(q) /\ SubSeq(q, 1, Len(p)) = p

\* q is a proper descendant of p
IsDescendant(q, p) == IsPrefix(p, q) /\ q # p

\* the paths a ChoiceSet stores
Stored(choices) == {choices[i].field : i \in DOMAIN choices}

\* the FieldSpec governing path rest below node: each ancestor is followed
\* through the option stored for its full path
RECURSIVE specBelow(_, _, _, _)
specBelow(choices, node, prefix, rest) ==
  LET spec == Get(Get(node, "fields"), Head(rest))
      here == Append(prefix, Head(rest))
  IN IF Len(rest) = 1 \/ spec = Undefined THEN spec
     ELSE specBelow(choices,
                    Get(Get(spec, "options"), ToKey(Lookup(choices, here))),
                    here, Tail(rest))

governingSpec(choices, p) ==
  IF p = <<>> THEN Undefined ELSE specBelow(choices, definition, <<>>, p)

IsEnumerated(spec) == Get(spec, "options").t = "object"

IsLiteral(spec) == Get(spec, "options").t = "symbol"

OptionKeys(spec) == Range(Keys(Get(spec, "options")))

\* the primitive type a literal-type marker expects
Expected(spec) ==
  IF Get(spec, "options") = STRING_SYM THEN "string" ELSE "number"

\* v matches the option space of spec
InOptionSpace(spec, v) ==
  IF IsEnumerated(spec) THEN v.t = "string" /\ v.s \in OptionKeys(spec)
  ELSE v.t = Expected(spec)

\* v satisfies spec: its option space, and its predicate if it has one
Satisfies(spec, v) ==
  /\ InOptionSpace(spec, v)
  /\ Get(spec, "validation") # Undefined => Apply(Get(spec, "validation"), v)

\* the Builder a choose call was made on
Receiver == heap[result.from]

ChooseDone == result.op = "choose"

Failed == result.kind \in {"InvalidField", "InvalidChoice"}

\* the last call returned a Builder, whose choices are Built
BuilderReturned == result.kind = "ok"

Built == result.choices

(* -------------------------------- claims ------------------------------- *)

\* C1: for every Builder and every path p of fields() whose FieldSpec is
\* enumerated, options(p) is exactly the keys of the option map and
\* choose(p, k) succeeds for every key k, also when the Builder holds
\* choices for descendants of p.
C1_RoundTrip ==
  /\ \A i \in DOMAIN heap :
       \A p \in Range(fields(heap[i])) :
         LET spec == governingSpec(heap[i], p)
         IN IsEnumerated(spec) =>
              options(heap[i], p)
                = [t |-> "array", list |-> Keys(Get(spec, "options"))]
  /\ ChooseDone =>
       LET spec == governingSpec(Receiver, result.field)
       IN (/\ Contains(result.field, fields(Receiver))
           /\ IsEnumerated(spec)
           /\ InOptionSpace(spec, result.value))
          => result.kind = "ok"

(* C2 *)

\* the list C2 states: a field is emitted only when it is literal-typed or
\* has no choice; an enumerated field with a choice is replaced by the
\* fields of the chosen option's node
RECURSIVE replacedBelow(_, _, _, _)
replacedBelow(choices, node, prefix, i) ==
  LET ks == Keys(Get(node, "fields"))
  IN IF i > Len(ks) THEN <<>>
     ELSE
       LET p == Append(prefix, ks[i])
           spec == Get(Get(node, "fields"), ks[i])
           chosen == Lookup(choices, p)
       IN (IF IsLiteral(spec) \/ chosen = Undefined THEN <<p>>
           ELSE replacedBelow(choices,
                              Get(Get(spec, "options"), ToKey(chosen)), p, 1))
          \o replacedBelow(choices, node, prefix, i + 1)

\* the list the amended C2 states: every field of an active node is
\* emitted, and an enumerated field with a choice is followed by the fields
\* of the chosen option's node
RECURSIVE keptBelow(_, _, _, _)
keptBelow(choices, node, prefix, i) ==
  LET ks == Keys(Get(node, "fields"))
  IN IF i > Len(ks) THEN <<>>
     ELSE
       LET p == Append(prefix, ks[i])
           spec == Get(Get(node, "fields"), ks[i])
           chosen == Lookup(choices, p)
       IN (<<p>> \o
           (IF IsLiteral(spec) \/ chosen = Undefined THEN <<>>
            ELSE keptBelow(choices,
                           Get(Get(spec, "options"), ToKey(chosen)), p, 1)))
          \o keptBelow(choices, node, prefix, i + 1)

\* C2 (as stated): fields() is the depth-first, schema-ordered list in
\* which an enumerated field with a recorded choice is not emitted but
\* replaced by the fields of the chosen option's node.
C2_ChosenFieldReplaced ==
  BuilderReturned => fields(Built) = replacedBelow(Built, definition, <<>>, 1)

\* C2 (amended): fields() is the depth-first, schema-ordered list in which
\* every field of an active node is emitted, and an enumerated field with a
\* recorded choice is emitted and followed by the fields of the chosen
\* option's node; only the empty root path is removed.
C2_ChosenFieldKept ==
  BuilderReturned => fields(Built) = keptBelow(Built, definition, <<>>, 1)

\* C2 witness: after class = mage alone, fields() lists class itself and
\* then the fields of mage.
C2_Witness ==
  /\ ChooseDone /\ BuilderReturned
  /\ Built = <<Entry(<<"class">>, Str("mage"))>>
  /\ fields(Built)
       = <<<<"name">>, <<"class">>, <<"class", "spell">>,
           <<"class", "school">>, <<"school">>>>

(* C3 *)

\* the stored paths whose validation reads the choice of p: the
\* descendants of p, and the paths that have p's single segment as a
\* segment before their last
DependsOn(q, p) ==
  \/ IsDescendant(q, p)
  \/ Len(p) = 1 /\ q # p /\ \E j \in 1..(Len(q) - 1) : q[j] = p[1]

Observed(choices) ==
  [fields |-> fields(choices), missing |-> missing(choices),
   get |-> [q \in TestPaths \cup Stored(choices) |-> get(choices, q)]]

\* C4: a call leaves every existing Builder as it was: get(q), fields() and
\* missing() of each Builder alive before the call are the same after it,
\* whichever Builder the call was made on; Builders derived from the same
\* Builder therefore never affect each other or their origin.
C4_BuildersImmutable ==
  [][\A i \in DOMAIN heap :
       i \in DOMAIN heap' /\ Observed(heap'[i]) = Observed(heap[i])]_vars

\* C4 witness: two Builders with different choices were derived from the
\* same Builder, which still holds its own choices.
C4_Witness ==
  /\ Len(heap) = 3
  /\ ChooseDone /\ result.from = 1 /\ result.created = 3
  /\ heap[1] = NoChoices
  /\ heap[2] # heap[3] /\ heap[2] # heap[1] /\ heap[3] # heap[1]

(* C5 *)

\* C5: when choose raises InvalidField or InvalidChoice no Builder is
\* produced, every Builder is as it was before the call, and no Builder
\* holds the receiver's choices with the rejected pair added.
C5_FailedChooseChangesNothing ==
  [][(result'.op = "choose"
      /\ result'.kind \in {"InvalidField", "InvalidChoice"})
     => /\ result'.created = 0
        /\ heap' = heap
        /\ \A i \in DOMAIN heap : Observed(heap'[i]) = Observed(heap[i])
        /\ Merge(heap[result'.from],
                 <<Entry(result'.field, result'.value)>>) \notin Range(heap')
    ]_vars

\* C5 witness: a choose on a Builder that holds choices was rejected.
C5_Witness ==
  /\ ChooseDone /\ result.kind = "InvalidChoice"
  /\ Stored(Receiver) # {}
  /\ result.errValue = result.value

(* C6 *)

\* the reachable fields of a Builder that have no stored value
Unset(choices) ==
  {p \in Range(fields(choices)) : get(choices, p) = Undefined}

\* C6: for every Builder a call returns, the paths of missing() are exactly
\* the paths of fields() whose get() is undefined, whatever the fields'
\* required flags are.  Violated: below a chosen three-segment path
\* missing() lists the fields of the option _choiceConfig resolves, which it
\* finds through the root field named like the second segment.
C6_MissingIsUnsetReachable ==
  BuilderReturned => Range(missing(Built)) = Unset(Built)

(* C7 *)

\* C7: for every Builder a call returns, get(p) is undefined for every
\* path p of missing(); no path with a stored value is in missing().
C7_MissingNotGettable ==
  BuilderReturned =>
    /\ \A p \in Range(missing(Built)) : get(Built, p) = Undefined
    /\ \A p \in Stored(Built) :
         get(Built, p) # Undefined => ~Contains(p, missing(Built))

\* C7 witness: a Builder that holds a nested choice still has missing
\* fields next to and below it.
C7_Witness ==
  /\ BuilderReturned
  /\ get(Built, <<"class", "spell">>) = Str("fire")
  /\ Contains(<<"class", "school">>, missing(Built))
  /\ ~Contains(<<"class", "spell">>, missing(Built))

(* C8 *)

\* C8: after a successful b2 = b.choose(p, v), every path of b.fields()
\* that is neither p nor a descendant of p is also in b2.fields().
C8_MonotonicVisibility ==
  (ChooseDone /\ BuilderReturned) =>
    \A q \in Range(fields(Receiver)) :
      ~IsPrefix(result.field, q) => Contains(q, fields(Built))

\* C8 witness: a successful choose replaced the option of an enumerated
\* field: the subtree at p lost a field, the fields outside it stayed.
C8_Witness ==
  /\ ChooseDone /\ BuilderReturned
  /\ result.field = <<"class">> /\ result.value = Str("warrior")
  /\ Contains(<<"class", "spell">>, fields(Receiver))
  /\ ~Contains(<<"class", "spell">>, fields(Built))
  /\ Contains(<<"school">>, fields(Built))

(* C9 *)

\* C9: choose(p, v) with p not in fields() of the receiver fails with
\* InvalidField whose field is p, for every value v, valid for some field
\* or not.
C9_UnreachableIsInvalidField ==
  (ChooseDone /\ ~Contains(result.field, fields(Receiver))) =>
    /\ result.kind = "InvalidField"
    /\ result.errField = result.field
    /\ result.created = 0

\* C9 witness: class.spell is a field of the schema but not reachable in a
\* Builder without class = mage; choosing it was rejected with
\* InvalidField("class.spell").
C9_Witness ==
  /\ ChooseDone
  /\ result.field = <<"class", "spell">>
  /\ Stored(Receiver) # {}
  /\ ~Contains(result.field, fields(Receiver))
  /\ result.kind = "InvalidField" /\ result.errField = <<"class", "spell">>

(* C10 *)

\* the reason of a type mismatch on a literal field
MustBe(spec) == Str(IF Expected(spec) = "string" THEN "must be string"
                    ELSE "must be number")

\* C10: choose(p, v) with p in fields() of the receiver, at any depth,
\* fails with InvalidChoice(p, v, reason) when p is enumerated and v is
\* not a key of its options (reason "must be one of [keys]") or when p is
\* literal and typeof v is not the marker's (reason "must be <type>").
C10_OutOfOptionSpaceIsInvalidChoice ==
  (ChooseDone /\ Contains(result.field, fields(Receiver))) =>
    LET spec == governingSpec(Receiver, result.field)
        rejected(reason) == /\ result.kind = "InvalidChoice"
                            /\ result.errField = result.field
                            /\ result.errValue = result.value
                            /\ result.reason = reason
    IN /\ (IsEnumerated(spec) /\ ~InOptionSpace(spec, result.value))
            => rejected(MustBeOneOf(Keys(Get(spec, "options"))))
       /\ (IsLiteral(spec) /\ ~InOptionSpace(spec, result.value))
            => rejected(MustBe(spec))

(* C11 *)

ConstructDone == result.op = "construct"

\* the parent path of a path of two or more segments
Parent(p) == SubSeq(p, 1, Len(p) - 1)

\* the entries of values before the j-th
Before(values, j) == SubSeq(values, 1, j - 1)

\* the j-th entry of values comes after an entry for its parent path, or
\* has no parent
AfterParent(values, j) ==
  Len(values[j].field) > 1 =>
    \E k \in 1..(j - 1) : values[k].field = Parent(values[j].field)

\* the j-th entry of values is valid for the entries before it: its
\* FieldSpec is found through their choices and accepts its value
ValidAfter(values, j) ==
  LET spec == governingSpec(Before(values, j), values[j].field)
  IN spec # Undefined /\ Satisfies(spec, values[j].value)

\* C11: construct applies the entries in their order against the choices
\* built so far and never reorders them: when an entry comes before the
\* entry of its parent path the call fails with InvalidField naming the
\* first such entry, and when every entry comes after its ancestors (and
\* is valid for them) the call succeeds with the entries in their order.
C11_ConstructOrdering ==
  ConstructDone =>
    LET values == result.values
        early == {j \in DOMAIN values : ~AfterParent(values, j)}
    IN /\ (early # {} /\ \A j \in DOMAIN values : j \notin early =>
                            ValidAfter(values, j))
            => /\ result.kind = "InvalidField"
               /\ \E j \in early : /\ \A k \in early : j <= k
                                   /\ result.errField = values[j].field
       /\ (\A j \in DOMAIN values : ValidAfter(values, j))
            => result.kind = "ok" /\ result.choices = values

(* C12 *)

\* choose applied for each pair of values in order, starting from the
\* outcome r; the first failure ends the chain
RECURSIVE chainChoose(_, _)
chainChoose(r, values) ==
  IF values = <<>> \/ r.kind # "ok" THEN r
  ELSE chainChoose(choose(r.choices, Head(values).field, Head(values).value),
                   Tail(values))

\* new Builder({}).choose(p1, v1).choose(p2, v2)...
foldChoose(values) == chainChoose(constructor(<<>>), values)

\* C12: for every sequence of pairs with distinct paths, construct(sequence)
\* succeeds iff the chain of choose calls from construct({}) in that order
\* succeeds; on success both hold the same choices, on failure both raise
\* the same kind of error for the same field.
C12_ConstructIsFoldOfChoose ==
  ConstructDone =>
    LET chained == foldChoose(result.values)
    IN /\ chained.kind = result.kind
       /\ result.kind = "ok" => chained.choices = result.choices
       /\ result.kind # "ok" => chained.field = result.errField

\* C12 witness: a construct of several entries failed at an entry after the
\* first, so the chain made at least one successful choose before failing.
C12_Witness ==
  /\ ConstructDone
  /\ Len(result.values) = 3
  /\ result.kind = "InvalidField"
  /\ result.errField = result.values[3].field
  /\ foldChoose(SubSeq(result.values, 1, 2)).kind = "ok"
  /\ foldChoose(result.values).kind = "InvalidField"

(* C13 *)

\* the SchemaNode of the option stored for path a, found through the
\* choices stored for the full ancestor paths
chosenNode(choices, a) ==
  Get(Get(governingSpec(choices, a), "options"), ToKey(Lookup(choices, a)))

\* the stored path p has a stored parent choice whose option's node has
\* p's last segment as a field, or p is a root-level path
Anchored(choices, p) ==
  Len(p) > 1 =>
    /\ Lookup(choices, Parent(p)) # Undefined
    /\ Get(Get(chosenNode(choices, Parent(p)), "fields"), p[Len(p)])
         # Undefined

\* C13: in every Builder a construct or a choose returns, every stored path
\* with a parent path has a stored choice for the parent, and its last
\* segment is a field of the node of the option stored for the parent.
C13_NoOrphanChoices ==
  BuilderReturned => \A p \in Stored(Built) : Anchored(Built, p)

\* C13 witness: a choose overwrote an enumerated choice with another
\* option while the Builder stored a descendant of it, and succeeded.
C13_Witness ==
  /\ ChooseDone /\ BuilderReturned
  /\ IsEnumerated(governingSpec(Receiver, result.field))
  /\ Lookup(Receiver, result.field) \notin {Undefined, result.value}
  /\ \E q \in Stored(Receiver) : IsDescendant(q, result.field)
  /\ \E q \in Stored(Built) : IsDescendant(q, result.field)

(* C14 *)

\* C14: in every Builder a construct or a choose returns, each stored
\* value satisfies the FieldSpec governing its path: the marker's type for
\* a literal field, a key of the option map for an enumerated field, and
\* the validation predicate where one is declared.
C14_StoredValuesValid ==
  BuilderReturned =>
    \A p \in Stored(Built) :
      /\ governingSpec(Built, p) # Undefined
      /\ Satisfies(governingSpec(Built, p), Lookup(Built, p))

(* C15 *)

\* the root-level field names of the schema with required: true, in schema
\* order
RootRequired == <<<<"name">>, <<"class">>>>

\* C15: for every Builder, requires() is exactly the root-level field names
\* with required: true, in schema order; it is the same for all Builders
\* whatever they hold, and contains no nested field, reachable or not.
C15_RequiresShallow ==
  /\ \A i \in DOMAIN heap : requires(heap[i]) = RootRequired
  /\ BuilderReturned =>
       /\ requires(Built) = RootRequired
       /\ \A p \in Range(requires(Built)) : Len(p) = 1

\* C15 witness: a Builder in which the nested required field class.spell is
\* reachable and unset, next to a Builder with no choices, both with the
\* same requires().
C15_Witness ==
  /\ BuilderReturned
  /\ Contains(<<"class", "spell">>, fields(Built))
  /\ Get(governingSpec(Built, <<"class", "spell">>), "required") = Bool(TRUE)
  /\ Contains(<<"class", "spell">>, missing(Built))
  /\ \E i \in DOMAIN heap : heap[i] = NoChoices
  /\ ~Contains(<<"class", "spell">>, requires(Built))

(* C16 *)

\* the FieldSpec has a validation predicate
HasPredicate(spec) == Get(spec, "validation") # Undefined

\* C16: for a path p of fields() whose FieldSpec has a validation predicate,
\* choose(p, v) with v of the FieldSpec's type or option set and rejected by
\* the predicate fails with InvalidChoice(p, v) without a reason, and with
\* v outside the type or option set it fails with InvalidChoice(p, v) with
\* a reason, whether or not the predicate accepts v.
C16_PredicateLastAndReasonless ==
  (ChooseDone /\ Contains(result.field, fields(Receiver))) =>
    LET spec == governingSpec(Receiver, result.field)
        rejected == /\ result.kind = "InvalidChoice"
                    /\ result.errField = result.field
                    /\ result.errValue = result.value
    IN HasPredicate(spec) =>
         /\ (/\ InOptionSpace(spec, result.value)
             /\ ~Apply(Get(spec, "validation"), result.value))
              => rejected /\ result.reason = Undefined
         /\ ~InOptionSpace(spec, result.value)
              => rejected /\ result.reason = MustBe(spec)

(* C17 *)

\* C17: for every Builder a call returns and every path p of its fields(),
\* at any depth, _choiceConfig(p) is the FieldSpec found by descending, for
\* each proper prefix of p, into the option stored for that full prefix; it
\* is never undefined and never found through the choice of another field.
C17_VisibleFieldResolvable ==
  BuilderReturned =>
    \A p \in Range(fields(Built)) :
      /\ choiceConfig(Built, p) # Undefined
      /\ choiceConfig(Built, p) = governingSpec(Built, p)

(* C18 *)

\* some value can be chosen for path p in a Builder with these choices
Assignable(choices, p) ==
  \E v \in TestValues : choose(choices, p, v).kind = "ok"

\* C18: in every Builder a call returns, every path of missing() has a
\* value for which choose succeeds, so that choosing values for missing
\* paths can go on until missing() is empty.
C18_WizardCompletable ==
  BuilderReturned => \A p \in Range(missing(Built)) : Assignable(Built, p)

(* C19 *)

\* C19: in every Builder a call returns, every path with a stored value,
\* literal or enumerated, at any depth, is an element of fields().
C19_ChosenStaysVisible ==
  BuilderReturned =>
    \A p \in TestPaths \cup Stored(Built) :
      get(Built, p) # Undefined => Contains(p, fields(Built))

\* C19 witness: a Builder that stores enumerated choices at depth one and
\* two and a literal choice at depth three, all of them in fields().
C19_Witness ==
  /\ BuilderReturned
  /\ {<<"class">>, <<"class", "school">>, <<"class", "school", "level">>}
       \subseteq Stored(Built)
  /\ Stored(Built) \subseteq Range(fields(Built))

(* C20 *)

\* C20 (as stated): after a successful b2 = b.choose(p, v) on a
\* literal-typed p, b2.fields() is b.fields(), b2.get(q) is b.get(q) for
\* every other q, and the paths of b2.missing() are those of b.missing()
\* without p.
C20_LiteralChoiceNoStructuralEffect ==
  (ChooseDone /\ BuilderReturned
     /\ IsLiteral(governingSpec(Receiver, result.field))) =>
    /\ fields(Built) = fields(Receiver)
    /\ \A q \in (TestPaths \cup Stored(Receiver) \cup Stored(Built))
                  \ {result.field} :
         get(Built, q) = get(Receiver, q)
    /\ get(Built, result.field) = result.value
    /\ Range(missing(Built)) = Range(missing(Receiver)) \ {result.field}

====
